---------------------------- MODULE Spec2Model ----------------------------
(***************************************************************************)
(* A model of OracleADB (src/oracle_adb.py): the database gateway          *)
(* (test_connection, execute_sql, get_version), the table identifier       *)
(* (analyze_query), the schema catalog builder (get_schema_info) and the   *)
(* SQL synthesizer (natural_language_to_sql).                              *)
(*                                                                         *)
(* A Python str is a sequence of characters; a character is a one-letter   *)
(* string, and a character outside ASCII is written by its code point      *)
(* ("U+672A" is 未).  A message is a str as well; the fixed literal of a    *)
(* message that the code never takes apart is written as one element, in   *)
(* an English gloss of the source's Chinese text.                          *)
(* An Optional value is <<>> for None and <<v>> for a value v.             *)
(***************************************************************************)
EXTENDS Integers, Sequences, FiniteSets, TLC

VARIABLES
    profile,    \* self.username, self.password, self.connect_string, self.ssl_context
    db,         \* the database: its committed table data and its catalog
    nextConn,   \* how many connections oracledb.connect has handed out so far
    openConns,  \* the connections that are open
    trace,      \* the external calls the last operation made, in order
    errlog,     \* what the last operation wrote with self.logger.error
    result      \* the last operation, its arguments and what it returned or raised

vars == <<profile, db, nextConn, openConns, trace, errlog, result>>

\* The number of connections one run of the model may open.
MaxConns == 2

None == <<>>
Some(v) == <<v>>

(***************************************************************************)
(* Python str operations, as the code uses them.                           *)
(***************************************************************************)
\* The characters str.strip() removes (those of the model's alphabet).
Whitespace == {" ", "\n", "\t", "\r"}

UpperLetters ==
    << "A", "B", "C", "D", "E", "F", "G", "H", "I", "J", "K", "L", "M",
       "N", "O", "P", "Q", "R", "S", "T", "U", "V", "W", "X", "Y", "Z" >>

LowerLetters ==
    << "a", "b", "c", "d", "e", "f", "g", "h", "i", "j", "k", "l", "m",
       "n", "o", "p", "q", "r", "s", "t", "u", "v", "w", "x", "y", "z" >>

\* str.lower() and str.upper(), letter by letter
LowerOf == [c \in {UpperLetters[i] : i \in 1..26} |->
               LowerLetters[CHOOSE i \in 1..26 : UpperLetters[i] = c]]
UpperOf == [c \in {LowerLetters[i] : i \in 1..26} |->
               UpperLetters[CHOOSE i \in 1..26 : LowerLetters[i] = c]]

ToLower(c) == IF c \in DOMAIN LowerOf THEN LowerOf[c] ELSE c
ToUpper(c) == IF c \in DOMAIN UpperOf THEN UpperOf[c] ELSE c

Lower(s) == [i \in 1..Len(s) |-> ToLower(s[i])]
Upper(s) == [i \in 1..Len(s) |-> ToUpper(s[i])]

RECURSIVE LStrip(_)
LStrip(s) == IF s # <<>> /\ Head(s) \in Whitespace THEN LStrip(Tail(s)) ELSE s

RECURSIVE RStrip(_)
RStrip(s) ==
    IF s # <<>> /\ s[Len(s)] \in Whitespace THEN RStrip(SubSeq(s, 1, Len(s) - 1)) ELSE s

\* str.strip()
Strip(s) == RStrip(LStrip(s))

\* str.startswith(prefix)
StartsWith(s, p) == Len(s) >= Len(p) /\ SubSeq(s, 1, Len(p)) = p

\* str.split(sep) for a one-character separator: "a\n".split("\n") is ["a", ""]
RECURSIVE SplitFrom(_, _, _)
SplitFrom(s, sep, cur) ==
    IF s = <<>> THEN <<cur>>
    ELSE IF Head(s) = sep THEN <<cur>> \o SplitFrom(Tail(s), sep, <<>>)
    ELSE SplitFrom(Tail(s), sep, Append(cur, Head(s)))

Split(s, sep) == SplitFrom(s, sep, <<>>)

\* sep.join(parts)
RECURSIVE Join(_, _)
Join(sep, parts) ==
    IF parts = <<>> THEN <<>>
    ELSE IF Len(parts) = 1 THEN parts[1]
    ELSE parts[1] \o sep \o Join(sep, Tail(parts))

RECURSIVE Flatten(_)
Flatten(parts) == IF parts = <<>> THEN <<>> ELSE Head(parts) \o Flatten(Tail(parts))

(***************************************************************************)
(* What a block of code ends with: a value it returns, or an exception it  *)
(* raises (named by its text, str(e)).                                     *)
(***************************************************************************)
Return(v) == [kind |-> "return", value |-> v]
Raise(e)  == [kind |-> "raise", value |-> e]

\* try: body / except Exception as e: Except(e).  What the whole statement ends
\* with (out) and what the handler logged.
Caught(body, Except(_)) ==
    IF body.kind = "raise" THEN Except(body.value) ELSE [out |-> body, log |-> <<>>]

(***************************************************************************)
(* The messages of the result triples (the source's text in the comment).  *)
(***************************************************************************)
MsgConnected     == << "connected" >>                              \* "连接成功"
MsgExecuted      == << "executed" >>                               \* "执行成功"
VersionFallback  == << "could not get the version" >>              \* "版本信息获取失败"
MsgNoTables      == << "cannot tell which tables the query involves" >>  \* "无法确定查询涉及的表"
MsgTablesFound   == << "identified the tables: " >>                \* "识别到相关表: "
MsgAnalyzeFailed == << "analysing the query failed: " >>           \* "分析查询失败: "
MsgSchemaFailed  == << "getting the schema failed: " >>            \* "获取schema失败: "
MsgSchemaOk      == << "got the schema" >>                         \* "获取schema成功"
MsgSqlOk         == << "generated the SQL query" >>                \* "成功生成SQL查询"
MsgRefusal       == << "cannot understand the question or generate its SQL query" >>
                                                                   \* "无法理解该问题或生成对应的SQL查询"
MsgNotQuery      == << "the generated SQL is not a valid query statement" >>
                                                                   \* "生成的SQL不是有效的查询语句"
MsgOpenAIFailed  == << "calling OpenAI failed: " >>                \* "调用OpenAI失败: "

\* The prefixes of the errors self.logger.error writes.
LogConnect == << "connection failed: " >>                          \* "连接失败: "
LogExecute == << "SQL execution failed: " >>                       \* "SQL执行失败: "
LogVersion == << "getting the version failed: " >>                 \* "获取版本失败: "

(***************************************************************************)
(* The language-model service.  One request has one of three outcomes: a   *)
(* completion text, a response without text (message.content is None), or  *)
(* an exception of the client (transport or API error).                    *)
(***************************************************************************)
TextReply(s)  == [kind |-> "text", text |-> s]
NullReply     == [kind |-> "null", text |-> <<>>]
ErrorReply(e) == [kind |-> "raise", text |-> e]

LlmErrors ==
    { << "Connection error." >>, MsgRefusal, MsgNoTables }

\* None.strip(): AttributeError
NoneStripError == << "'NoneType' object has no attribute 'strip'" >>

\* response.choices[0].message.content.strip()
ContentStrip(reply) ==
    IF reply.kind = "raise" THEN Raise(reply.text)
    ELSE IF reply.kind = "null" THEN Raise(NoneStripError)
    ELSE Return(Strip(reply.text))

UnknownToken ==
    << "U+672A", "U+77E5" >>

RefusalSentinel ==
    << "U+65E0", "U+6CD5", "U+751F", "U+6210", "U+6709", "U+6548", "U+7684", "S", "Q", "L", "U+67E5",
       "U+8BE2" >>

KwSelect ==
    << "s", "e", "l", "e", "c", "t" >>

KwWith ==
    << "w", "i", "t", "h" >>

(***************************************************************************)
(* analyze_query: the table identifier.                                    *)
(***************************************************************************)
RECURSIVE TableNamesOf(_)
\* [table.strip().upper() for table in lines if table.strip()]
TableNamesOf(lines) ==
    IF lines = <<>> THEN <<>>
    ELSE IF Strip(Head(lines)) # <<>>
         THEN <<Upper(Strip(Head(lines)))>> \o TableNamesOf(Tail(lines))
         ELSE TableNamesOf(Tail(lines))

\* tables = []; if result.lower() != "未知": tables = [...]
ParseTables(res) ==
    IF Lower(res) # UnknownToken THEN TableNamesOf(Split(res, "\n")) ELSE <<>>

CommaSpace == << ",", " " >>

\* An analyze_query that reports the empty case as it reports an exception.
AnalyzeQueryReturnAsError(tables) ==
    IF tables = <<>>
    THEN <<FALSE, MsgAnalyzeFailed \o MsgNoTables, None>>
    ELSE <<TRUE, MsgTablesFound \o Join(CommaSpace, tables), Some(tables)>>

\* if not tables: return False, ...; return True, ..., tables
AnalyzeQueryReturn(tables) ==
    IF tables = <<>>
    THEN <<FALSE, MsgNoTables, None>>
    ELSE <<TRUE, MsgTablesFound \o Join(CommaSpace, tables), Some(tables)>>

\* except Exception as e: self.logger.error(...); return False, f"分析查询失败: {str(e)}", None
AnalyzeQueryExcept(e) ==
    [out |-> Return(<<FALSE, MsgAnalyzeFailed \o e, None>>),
     log |-> <<MsgAnalyzeFailed \o e>>]

\* The try block of analyze_query, given the stripped content of the response.
AnalyzeQueryBody(content) ==
    IF content.kind = "raise" THEN content
    ELSE Return(AnalyzeQueryReturn(ParseTables(content.value)))

AnalyzeQueryTrace(query, reply) ==
    << [ev |-> "llm", stage |-> "analyze", query |-> query, reply |-> reply] >>

AnalyzeQueryDone(done, query, reply) ==
    [out |-> done.out, log |-> done.log, trace |-> AnalyzeQueryTrace(query, reply)]

\* analyze_query(query), the service answering `reply`
AnalyzeQuery(query, reply) ==
    AnalyzeQueryDone(Caught(AnalyzeQueryBody(ContentStrip(reply)), AnalyzeQueryExcept),
                     query, reply)

(***************************************************************************)
(* The database behind oracledb.connect.  It holds one data table T (a set *)
(* of ID values, ID its key) and a catalog of the caller's tables.  A      *)
(* session sees the committed rows and its own uncommitted changes.        *)
(***************************************************************************)
NameDEPT ==
    << "D", "E", "P", "T" >>

NameEMP ==
    << "E", "M", "P" >>

NameT ==
    << "T" >>

NameEmpLower ==
    << "e", "m", "p" >>

Column(name, type, length, nullable, comment) ==
    [name |-> name, type |-> type, length |-> length, nullable |-> nullable,
     comment |-> comment]

\* user_tables, user_tab_comments, user_tab_columns and user_col_comments, per table,
\* the columns by column_id.
CatalogOf(name) ==
    IF name = NameDEPT THEN
        [comment |-> Some(<<"departments">>),
         columns |-> << Column("ID", "NUMBER", 22, "N", None),
                        Column("NAME", "VARCHAR2", 50, "Y", Some(<<"department name">>)) >>]
    ELSE IF name = NameEMP THEN
        [comment |-> None,
         columns |-> << Column("ID", "NUMBER", 22, "N", Some(<<"employee id">>)),
                        Column("DEPT_ID", "NUMBER", 22, "Y", None) >>]
    ELSE IF name = NameEmpLower THEN
        [comment |-> Some(<<"created with a quoted identifier">>),
         columns |-> << Column("id", "NUMBER", 22, "Y", None) >>]
    ELSE
        [comment |-> None,
         columns |-> << Column("ID", "NUMBER", 22, "N", None) >>]

\* The catalogs a run may start with, each in the order of ORDER BY t.table_name
\* (binary order: upper case before lower case).
Catalogs ==
    { << NameEMP, NameT >>,
      << NameDEPT, NameEMP, NameT, NameEmpLower >> }

RowIds == {1, 2}

RECURSIVE SortedSeq(_)
SortedSeq(S) ==
    IF S = {} THEN <<>>
    ELSE LET m == CHOOSE x \in S : \A y \in S : x <= y
         IN  <<m>> \o SortedSeq(S \ {m})

\* The errors of the driver, by their text.
ConnectError   == << "DPY-6005: cannot connect to database" >>
NetworkError   == << "DPY-4011: the database or network closed the connection" >>
InvalidSql     == << "ORA-00900: invalid SQL statement" >>
UniqueViolated == << "ORA-00001: unique constraint violated" >>
SyntaxError    == << "ORA-00933: SQL command not properly ended" >>
UnpackNone     == << "cannot unpack non-iterable NoneType object" >>
SubscriptNone  == << "'NoneType' object is not subscriptable" >>

SchemaSqlHead ==
    << "\n", " ", " ", " ", " ", " ", " ", " ", " ", " ", " ", " ", " ", " ", " ", " ", " ", "S", "E",
       "L", "E", "C", "T", " ", "\n", " ", " ", " ", " ", " ", " ", " ", " ", " ", " ", " ", " ", " ",
       " ", " ", " ", " ", " ", " ", " ", "t", ".", "t", "a", "b", "l", "e", "_", "n", "a", "m", "e",
       ",", "\n", " ", " ", " ", " ", " ", " ", " ", " ", " ", " ", " ", " ", " ", " ", " ", " ", " ",
       " ", " ", " ", "t", "c", ".", "c", "o", "m", "m", "e", "n", "t", "s", " ", "a", "s", " ", "t",
       "a", "b", "l", "e", "_", "c", "o", "m", "m", "e", "n", "t", ",", "\n", " ", " ", " ", " ", " ",
       " ", " ", " ", " ", " ", " ", " ", " ", " ", " ", " ", " ", " ", " ", " ", "c", ".", "c", "o",
       "l", "u", "m", "n", "_", "n", "a", "m", "e", ",", "\n", " ", " ", " ", " ", " ", " ", " ", " ",
       " ", " ", " ", " ", " ", " ", " ", " ", " ", " ", " ", " ", "c", ".", "d", "a", "t", "a", "_",
       "t", "y", "p", "e", ",", "\n", " ", " ", " ", " ", " ", " ", " ", " ", " ", " ", " ", " ", " ",
       " ", " ", " ", " ", " ", " ", " ", "c", ".", "d", "a", "t", "a", "_", "l", "e", "n", "g", "t",
       "h", ",", "\n", " ", " ", " ", " ", " ", " ", " ", " ", " ", " ", " ", " ", " ", " ", " ", " ",
       " ", " ", " ", " ", "c", ".", "n", "u", "l", "l", "a", "b", "l", "e", ",", "\n", " ", " ", " ",
       " ", " ", " ", " ", " ", " ", " ", " ", " ", " ", " ", " ", " ", " ", " ", " ", " ", "c", "c",
       ".", "c", "o", "m", "m", "e", "n", "t", "s", " ", "a", "s", " ", "c", "o", "l", "u", "m", "n",
       "_", "c", "o", "m", "m", "e", "n", "t", "\n", " ", " ", " ", " ", " ", " ", " ", " ", " ", " ",
       " ", " ", " ", " ", " ", " ", "F", "R", "O", "M", " ", "u", "s", "e", "r", "_", "t", "a", "b",
       "l", "e", "s", " ", "t", "\n", " ", " ", " ", " ", " ", " ", " ", " ", " ", " ", " ", " ", " ",
       " ", " ", " ", "L", "E", "F", "T", " ", "J", "O", "I", "N", " ", "u", "s", "e", "r", "_", "t",
       "a", "b", "_", "c", "o", "m", "m", "e", "n", "t", "s", " ", "t", "c", " ", "O", "N", " ", "t",
       ".", "t", "a", "b", "l", "e", "_", "n", "a", "m", "e", " ", "=", " ", "t", "c", ".", "t", "a",
       "b", "l", "e", "_", "n", "a", "m", "e", "\n", " ", " ", " ", " ", " ", " ", " ", " ", " ", " ",
       " ", " ", " ", " ", " ", " ", "L", "E", "F", "T", " ", "J", "O", "I", "N", " ", "u", "s", "e",
       "r", "_", "t", "a", "b", "_", "c", "o", "l", "u", "m", "n", "s", " ", "c", " ", "O", "N", " ",
       "t", ".", "t", "a", "b", "l", "e", "_", "n", "a", "m", "e", " ", "=", " ", "c", ".", "t", "a",
       "b", "l", "e", "_", "n", "a", "m", "e", "\n", " ", " ", " ", " ", " ", " ", " ", " ", " ", " ",
       " ", " ", " ", " ", " ", " ", "L", "E", "F", "T", " ", "J", "O", "I", "N", " ", "u", "s", "e",
       "r", "_", "c", "o", "l", "_", "c", "o", "m", "m", "e", "n", "t", "s", " ", "c", "c", " ", "O",
       "N", " ", "c", ".", "t", "a", "b", "l", "e", "_", "n", "a", "m", "e", " ", "=", " ", "c", "c",
       ".", "t", "a", "b", "l", "e", "_", "n", "a", "m", "e", " ", "\n", " ", " ", " ", " ", " ", " ",
       " ", " ", " ", " ", " ", " ", " ", " ", " ", " ", " ", " ", " ", " ", "A", "N", "D", " ", "c",
       ".", "c", "o", "l", "u", "m", "n", "_", "n", "a", "m", "e", " ", "=", " ", "c", "c", ".", "c",
       "o", "l", "u", "m", "n", "_", "n", "a", "m", "e", "\n", " ", " ", " ", " ", " ", " ", " ", " ",
       " ", " ", " ", " " >>

WhereInOpen ==
    << " ", "W", "H", "E", "R", "E", " ", "t", ".", "t", "a", "b", "l", "e", "_", "n", "a", "m", "e",
       " ", "I", "N", " ", "(" >>

OrderByTail ==
    << " ", "O", "R", "D", "E", "R", " ", "B", "Y", " ", "t", ".", "t", "a", "b", "l", "e", "_", "n",
       "a", "m", "e", ",", " ", "c", ".", "c", "o", "l", "u", "m", "n", "_", "i", "d" >>

InstanceSql ==
    << "S", "E", "L", "E", "C", "T", " ", "S", "Y", "S", "D", "A", "T", "E", ",", " ", "V", "E", "R",
       "S", "I", "O", "N", " ", "F", "R", "O", "M", " ", "V", "$", "I", "N", "S", "T", "A", "N", "C",
       "E" >>

BannerSql ==
    << "S", "E", "L", "E", "C", "T", " ", "B", "A", "N", "N", "E", "R", " ", "F", "R", "O", "M", " ",
       "V", "$", "V", "E", "R", "S", "I", "O", "N", " ", "W", "H", "E", "R", "E", " ", "R", "O", "W",
       "N", "U", "M", " ", "=", " ", "1" >>

BannerFullSql ==
    << "S", "E", "L", "E", "C", "T", " ", "b", "a", "n", "n", "e", "r", "_", "f", "u", "l", "l", " ",
       "F", "R", "O", "M", " ", "v", "$", "v", "e", "r", "s", "i", "o", "n", " ", "W", "H", "E", "R",
       "E", " ", "r", "o", "w", "n", "u", "m", " ", "=", " ", "1" >>

SelectT ==
    << "S", "E", "L", "E", "C", "T", " ", "I", "D", " ", "F", "R", "O", "M", " ", "T" >>

WithT ==
    << "w", "i", "t", "h", " ", "q", " ", "a", "s", " ", "(", "s", "e", "l", "e", "c", "t", " ", "i",
       "d", " ", "f", "r", "o", "m", " ", "t", ")", " ", "s", "e", "l", "e", "c", "t", " ", "*", " ",
       "f", "r", "o", "m", " ", "q" >>

InsertT ==
    << "I", "N", "S", "E", "R", "T", " ", "I", "N", "T", "O", " ", "T", " ", "V", "A", "L", "U", "E",
       "S", " ", "(", "2", ")" >>

DeleteT ==
    << "D", "E", "L", "E", "T", "E", " ", "F", "R", "O", "M", " ", "T" >>

TruncateT ==
    << "T", "R", "U", "N", "C", "A", "T", "E", " ", "T", "A", "B", "L", "E", " ", "T" >>

BadSql ==
    << "S", "E", "L", "E", "C", " ", "I", "D" >>

OrOpen ==
    << " ", "O", "R", " ", "(" >>

EndsWith(s, p) == Len(s) >= Len(p) /\ SubSeq(s, Len(s) - Len(p) + 1, Len(s)) = p

DropFirst(s, n) == SubSeq(s, n + 1, Len(s))

(***************************************************************************)
(* How the database reads the catalog statement of get_schema_info: after  *)
(* the fixed text, either the ORDER BY alone, or a WHERE clause of the     *)
(* form  t.table_name IN ('a', 'b')  optionally followed by                *)
(* OR ('x'='y').  In a string literal '' stands for one quote.  Any other  *)
(* text is a syntax error.                                                 *)
(***************************************************************************)
RECURSIVE ScanLiteral(_, _)
ScanLiteral(s, acc) ==
    IF s = <<>> THEN [ok |-> FALSE, lit |-> acc, rest |-> <<>>]
    ELSE IF Head(s) = "'"
         THEN IF Len(s) >= 2 /\ s[2] = "'"
              THEN ScanLiteral(DropFirst(s, 2), Append(acc, "'"))
              ELSE [ok |-> TRUE, lit |-> acc, rest |-> Tail(s)]
         ELSE ScanLiteral(Tail(s), Append(acc, Head(s)))

ParseLiteral(s) ==
    IF s # <<>> /\ Head(s) = "'" THEN ScanLiteral(Tail(s), <<>>)
    ELSE [ok |-> FALSE, lit |-> <<>>, rest |-> s]

RECURSIVE ParseLiteralList(_, _)
ParseLiteralList(s, acc) ==
    LET l == ParseLiteral(s)
    IN  IF ~l.ok THEN [ok |-> FALSE, lits |-> acc, rest |-> s]
        ELSE IF StartsWith(l.rest, <<",", " ">>)
             THEN ParseLiteralList(DropFirst(l.rest, 2), Append(acc, l.lit))
             ELSE [ok |-> TRUE, lits |-> Append(acc, l.lit), rest |-> l.rest]

BadFilter == [ok |-> FALSE, kind |-> "error", names |-> <<>>, always |-> FALSE]

ParseOrClause(names, s) ==
    LET a == ParseLiteral(s)
        b == ParseLiteral(DropFirst(a.rest, 1))
    IN  IF a.ok /\ StartsWith(a.rest, <<"=">>) /\ b.ok /\ b.rest = <<")">>
        THEN [ok |-> TRUE, kind |-> "in_or", names |-> names, always |-> (a.lit = b.lit)]
        ELSE BadFilter

ParseFilter(rest) ==
    IF rest = OrderByTail
    THEN [ok |-> TRUE, kind |-> "all", names |-> <<>>, always |-> TRUE]
    ELSE IF StartsWith(rest, WhereInOpen) /\ EndsWith(DropFirst(rest, Len(WhereInOpen)), OrderByTail)
    THEN LET cond == SubSeq(rest, Len(WhereInOpen) + 1, Len(rest) - Len(OrderByTail))
             list == ParseLiteralList(cond, <<>>)
             after == DropFirst(list.rest, 1)
         IN  IF ~list.ok \/ ~StartsWith(list.rest, <<")">>) THEN BadFilter
             ELSE IF after = <<>>
                  THEN [ok |-> TRUE, kind |-> "in", names |-> list.lits, always |-> FALSE]
             ELSE IF StartsWith(after, OrOpen)
                  THEN ParseOrClause(list.lits, DropFirst(after, Len(OrOpen)))
             ELSE BadFilter
    ELSE BadFilter

InSeq(x, s) == \E i \in 1..Len(s) : s[i] = x

\* The rows of the catalog join for one table: one per column, by column_id.
TableRows(name) ==
    LET t == CatalogOf(name)
    IN  [i \in 1..Len(t.columns) |->
            << name, t.comment, t.columns[i].name, t.columns[i].type,
               t.columns[i].length, t.columns[i].nullable, t.columns[i].comment >>]

RECURSIVE CatalogRows(_, _)
CatalogRows(tables, filter) ==
    IF tables = <<>> THEN <<>>
    ELSE (IF filter.always \/ InSeq(Head(tables), filter.names)
          THEN TableRows(Head(tables)) ELSE <<>>)
         \o CatalogRows(Tail(tables), filter)

SchemaDescription ==
    << <<"TABLE_NAME", "VARCHAR2">>, <<"TABLE_COMMENT", "VARCHAR2">>,
       <<"COLUMN_NAME", "VARCHAR2">>, <<"DATA_TYPE", "VARCHAR2">>,
       <<"DATA_LENGTH", "NUMBER">>, <<"NULLABLE", "VARCHAR2">>,
       <<"COLUMN_COMMENT", "VARCHAR2">> >>

(***************************************************************************)
(* A session and cursor.execute.  The cursor afterwards holds the          *)
(* description (None for a statement without a result set), the rows to    *)
(* fetch and the row count.                                                *)
(***************************************************************************)
\* oracledb.connect(**self.get_connection_params()): the parameters set no
\* autocommit, so the connection has the driver's default.
Autocommit == FALSE

Session(d) == [committed |-> d.rows, view |-> d.rows, tables |-> d.tables]

Cursor(err, description, rows, rowcount, sess) ==
    [err |-> err, description |-> description, rows |-> rows, rowcount |-> rowcount,
     sess |-> sess]

\* A change of the data: kept in the session, committed at once under autocommit.
Changed(sess, view) ==
    [sess EXCEPT !.view = view, !.committed = IF Autocommit THEN view ELSE @]

\* A DDL statement commits the session's changes and its own.
Committed(sess, view) == [sess EXCEPT !.view = view, !.committed = view]

IdRows(sess) == [i \in 1..Cardinality(sess.view) |-> << SortedSeq(sess.view)[i] >>]

DbDate    == << 2026, 11, 4, 9, 5, 30 >>
DbVersion == << "19.0.0.0.0" >>
DbBanner  == << "Oracle Database 19c Enterprise Edition Release 19.0.0.0.0 - Production" >>

CursorExecute(sql, sess) ==
    IF StartsWith(sql, SchemaSqlHead) THEN
        LET filter == ParseFilter(DropFirst(sql, Len(SchemaSqlHead)))
        IN  IF filter.ok
            THEN Cursor(None, Some(SchemaDescription), CatalogRows(sess.tables, filter), 0, sess)
            ELSE Cursor(Some(SyntaxError), None, <<>>, 0, sess)
    ELSE IF sql \in {SelectT, WithT} THEN
        Cursor(None, Some(<< <<"ID", "NUMBER">> >>), IdRows(sess), 0, sess)
    ELSE IF sql = InsertT THEN
        IF 2 \in sess.view THEN Cursor(Some(UniqueViolated), None, <<>>, 0, sess)
        ELSE Cursor(None, None, <<>>, 1, Changed(sess, sess.view \cup {2}))
    ELSE IF sql = DeleteT THEN
        Cursor(None, None, <<>>, Cardinality(sess.view), Changed(sess, {}))
    ELSE IF sql = TruncateT THEN
        Cursor(None, None, <<>>, 0, Committed(sess, {}))
    ELSE IF sql = InstanceSql THEN
        Cursor(None, Some(<< <<"SYSDATE", "DATE">>, <<"VERSION", "VARCHAR2">> >>),
               << <<DbDate, DbVersion>> >>, 0, sess)
    ELSE IF sql \in {BannerSql, BannerFullSql} THEN
        Cursor(None, Some(<< <<"BANNER", "VARCHAR2">> >>), << <<DbBanner>> >>, 0, sess)
    ELSE Cursor(Some(InvalidSql), None, <<>>, 0, sess)

\* Closing a connection rolls back what its session did not commit.
SessionClosed(sess) == [rows |-> sess.committed, tables |-> sess.tables]

(***************************************************************************)
(* The gateway.  Each operation is given the fault the driver raises in    *)
(* this call, if any, and returns what the operation returns (out), what   *)
(* it logs, its external calls, and the database and connections after it. *)
(***************************************************************************)
\* A connection that is closed at the end of the block only, not when the block raises.
ConnectionExitOnSuccess(open, conn, raising) == IF raising THEN open ELSE open \ {conn}

\* with oracledb.connect(...) as connection: leaving the block closes the
\* connection, whether the block ends normally or with an exception.
ConnectionExit(open, conn, raising) == open \ {conn}

ConnectTrace(conn) == << [ev |-> "connect", conn |-> conn] >>

ExecuteTrace(conn, sql) == << [ev |-> "execute", conn |-> conn, sql |-> sql] >>

CursorTrace(description, rows, rowcount) ==
    << [ev |-> "cursor", description |-> description, rows |-> rows,
        rowcount |-> rowcount] >>

CloseTrace(conn, open) ==
    IF conn \in open THEN <<>> ELSE << [ev |-> "close", conn |-> conn] >>

\* [col[0] for col in cursor.description]
ColumnNames(description) == [i \in 1..Len(description) |-> description[i][1]]

\* A result that reports an unknown row count as no rows affected.
ExecuteSqlDataZeroUnknown(description, rows, rowcount, ms) ==
    [columns |-> IF description # None THEN ColumnNames(description[1]) ELSE <<>>,
     results |-> IF description # None THEN rows ELSE <<>>,
     execution_time |-> ms,
     affected_rows |-> IF description = None
                       THEN Some(IF rowcount > -1 THEN rowcount ELSE 0) ELSE None]

\* The dict execute_sql returns: columns, results, execution_time, affected_rows.
ExecuteSqlData(description, rows, rowcount, ms) ==
    [columns |-> IF description # None THEN ColumnNames(description[1]) ELSE <<>>,
     results |-> IF description # None THEN rows ELSE <<>>,
     execution_time |-> ms,
     affected_rows |-> IF description = None THEN Some(rowcount) ELSE None]

\* A handler that logs the exception and raises it again.
ExecuteSqlExceptReraise(e) ==
    [out |-> Raise(e), log |-> << LogExecute \o e >>]

\* except Exception as e: self.logger.error(...); return False, str(e), None
ExecuteSqlExcept(e) ==
    [out |-> Return(<<FALSE, e, None>>), log |-> << LogExecute \o e >>]

\* cursor.rowcount where execute_sql reads it: after fetchall, the rows fetched; for a
\* statement without a result set the engine's count, or -1 when it reports none.
RowCount(cur, known) ==
    IF cur.description # None THEN Len(cur.rows)
    ELSE IF known THEN cur.rowcount ELSE -1

\* What a gateway operation leaves behind: `raising` tells how its with block ended,
\* `sess` is the session at that point, `calls` the statements it executed.
GatewayDone(done, raising, connected, sess, calls, d, n, open) ==
    IF ~connected
    THEN [out |-> done.out, log |-> done.log, trace |-> << [ev |-> "connect_failed"] >>,
          db |-> d, nextConn |-> n, openConns |-> open]
    ELSE [out |-> done.out, log |-> done.log,
          trace |-> ConnectTrace(n + 1) \o calls
                    \o CloseTrace(n + 1, ConnectionExit(open \cup {n + 1}, n + 1, raising)),
          db |-> SessionClosed(sess),
          nextConn |-> n + 1,
          openConns |-> ConnectionExit(open \cup {n + 1}, n + 1, raising)]

\* The try block of execute_sql, the cursor being `cur` after cursor.execute.
ExecuteSqlBody(cur, fault, known, ms) ==
    IF fault = "connect" THEN Raise(ConnectError)
    ELSE IF fault = "execute" THEN Raise(NetworkError)
    ELSE IF cur.err # None THEN Raise(cur.err[1])
    ELSE IF cur.description # None /\ fault = "fetch" THEN Raise(NetworkError)
    ELSE Return(<<TRUE, MsgExecuted,
                  Some(ExecuteSqlData(cur.description, cur.rows, RowCount(cur, known), ms))>>)

ExecuteSqlCalls(cur, sql, fault, known, n) ==
    ExecuteTrace(n + 1, sql)
    \o (IF fault # "execute" /\ cur.err = None
        THEN CursorTrace(cur.description, cur.rows, RowCount(cur, known)) ELSE <<>>)

ExecuteSqlWith(cur, body, sql, fault, known, d, n, open) ==
    GatewayDone(Caught(body, ExecuteSqlExcept), body.kind = "raise", fault # "connect",
                IF fault # "execute" THEN cur.sess ELSE Session(d),
                ExecuteSqlCalls(cur, sql, fault, known, n), d, n, open)

ExecuteSqlOn(cur, sql, fault, known, ms, d, n, open) ==
    ExecuteSqlWith(cur, ExecuteSqlBody(cur, fault, known, ms), sql, fault, known, d, n, open)

\* execute_sql(sql_query).  fault: where the driver fails; known: whether the
\* engine reports a row count.
ExecuteSql(sql, fault, known, ms, d, n, open) ==
    ExecuteSqlOn(CursorExecute(sql, Session(d)), sql, fault, known, ms, d, n, open)

Digits == << "0", "1", "2", "3", "4", "5", "6", "7", "8", "9" >>

Digit(k) == Digits[k + 1]

TwoDigits(k) == << Digit((k \div 10) % 10), Digit(k % 10) >>

\* date_result.strftime("%Y-%m-%d %H:%M:%S")
Strftime(dt) ==
    TwoDigits(dt[1] \div 100) \o TwoDigits(dt[1] % 100) \o <<"-">> \o TwoDigits(dt[2])
    \o <<"-">> \o TwoDigits(dt[3]) \o <<" ">> \o TwoDigits(dt[4]) \o <<":">>
    \o TwoDigits(dt[5]) \o <<":">> \o TwoDigits(dt[6])

\* except Exception as e: self.logger.error(...); return False, str(e), None
TestConnectionExcept(e) ==
    [out |-> Return(<<FALSE, e, None>>), log |-> << LogConnect \o e >>]

TestConnectionFaults ==
    {"none", "connect", "execute", "fetch", "norow", "execute2", "fetch2", "norow2"}

\* The try block of test_connection.
TestConnectionBody(fault, ms, first, second) ==
    IF fault = "connect" THEN Raise(ConnectError)
    ELSE IF fault \in {"execute", "fetch", "execute2", "fetch2"} THEN Raise(NetworkError)
    ELSE IF fault = "norow" THEN Raise(UnpackNone)
    ELSE IF fault = "norow2" THEN Raise(SubscriptNone)
    ELSE Return(<<TRUE, MsgConnected,
                  Some([response_time |-> ms,
                        date |-> Strftime(first.rows[1][1]),
                        version |-> first.rows[1][2],
                        banner |-> second.rows[1][1]])>>)

TestConnectionCalls(fault, n) ==
    ExecuteTrace(n + 1, InstanceSql)
    \o (IF fault \notin {"connect", "execute", "fetch", "norow"}
        THEN ExecuteTrace(n + 1, BannerSql) ELSE <<>>)

TestConnectionWith(body, fault, d, n, open) ==
    GatewayDone(Caught(body, TestConnectionExcept), body.kind = "raise", fault # "connect",
                Session(d), TestConnectionCalls(fault, n), d, n, open)

\* test_connection()
TestConnection(fault, ms, d, n, open) ==
    TestConnectionWith(
        TestConnectionBody(fault, ms, CursorExecute(InstanceSql, Session(d)),
                           CursorExecute(BannerSql, Session(d))),
        fault, d, n, open)

\* except Exception as e: self.logger.error(...); return "版本信息获取失败"
GetVersionExcept(e) ==
    [out |-> Return(VersionFallback), log |-> << LogVersion \o e >>]

GetVersionFaults == {"none", "connect", "execute", "fetch", "norow"}

\* The try block of get_version; version is what fetchone returned.
GetVersionBody(fault, version) ==
    IF fault = "connect" THEN Raise(ConnectError)
    ELSE IF fault \in {"execute", "fetch"} THEN Raise(NetworkError)
    ELSE Return(IF version # None THEN version[1][1] ELSE VersionFallback)

GetVersionWith(body, fault, d, n, open) ==
    GatewayDone(Caught(body, GetVersionExcept), body.kind = "raise", fault # "connect",
                Session(d), ExecuteTrace(n + 1, BannerFullSql), d, n, open)

\* get_version()
GetVersion(fault, d, n, open) ==
    GetVersionWith(
        GetVersionBody(fault, IF fault = "norow" THEN None
                              ELSE Some(CursorExecute(BannerFullSql, Session(d)).rows[1])),
        fault, d, n, open)

(***************************************************************************)
(* get_schema_info: the schema catalog builder.                            *)
(***************************************************************************)
Quote == << "'" >>

\* ", ".join(f"'{t}'" for t in tables)
TableList(tables) ==
    Join(CommaSpace, [i \in 1..Len(tables) |-> Quote \o tables[i] \o Quote])

\* A builder that assigns the WHERE condition to schema_sql instead of appending it.
BuildSchemaSqlOverwritten(tables) ==
    (IF tables # None /\ tables[1] # <<>>
     THEN WhereInOpen \o TableList(tables[1]) \o << ")" >>
     ELSE SchemaSqlHead)
    \o OrderByTail

\* schema_sql, with the WHERE condition when tables is neither None nor empty
BuildSchemaSql(tables) ==
    SchemaSqlHead
    \o (IF tables # None /\ tables[1] # <<>>
        THEN WhereInOpen \o TableList(tables[1]) \o << ")" >>
        ELSE <<>>)
    \o OrderByTail

\* row[1] or '', row[6] or ''
OrEmpty(opt) == IF opt = None THEN <<>> ELSE opt[1]

ColumnInfo(row) ==
    [name |-> row[3], type |-> row[4], length |-> row[5], nullable |-> (row[6] = "Y"),
     comment |-> OrEmpty(row[7])]

\* for row in data['results']: ... ; the dict as a function of its keys
RECURSIVE OrganizeSchema(_, _)
OrganizeSchema(rows, info) ==
    IF rows = <<>> THEN info
    ELSE LET row == Head(rows)
             name == row[1]
             entry == IF name \in DOMAIN info THEN info[name]
                      ELSE [comment |-> OrEmpty(row[2]), columns |-> <<>>]
             added == [entry EXCEPT !.columns = Append(@, ColumnInfo(row))]
         IN  OrganizeSchema(Tail(rows),
                            [k \in DOMAIN info \cup {name} |->
                                IF k = name THEN added ELSE info[k]])

\* except Exception as e: self.logger.error(...); return False, f"获取schema失败: {str(e)}", None
GetSchemaInfoExcept(e) ==
    [out |-> Return(<<FALSE, MsgSchemaFailed \o e, None>>),
     log |-> << MsgSchemaFailed \o e >>]

\* The try block of get_schema_info after execute_sql returned `run`.
GetSchemaInfoBody(run) ==
    IF run.out.kind = "raise" THEN run.out
    ELSE IF ~run.out.value[1]
    THEN Return(<<FALSE, MsgSchemaFailed \o run.out.value[2], None>>)
    ELSE Return(<<TRUE, MsgSchemaOk,
                  Some(OrganizeSchema(run.out.value[3][1].results, <<>>))>>)

GetSchemaInfoDone(done, run) ==
    [out |-> done.out, log |-> run.log \o done.log, trace |-> run.trace,
     db |-> run.db, nextConn |-> run.nextConn, openConns |-> run.openConns]

GetSchemaInfoOf(run) ==
    GetSchemaInfoDone(Caught(GetSchemaInfoBody(run), GetSchemaInfoExcept), run)

\* get_schema_info(tables)
GetSchemaInfo(tables, fault, known, ms, d, n, open) ==
    GetSchemaInfoOf(ExecuteSql(BuildSchemaSql(tables), fault, known, ms, d, n, open))

(***************************************************************************)
(* natural_language_to_sql: the SQL synthesizer.                           *)
(***************************************************************************)
Contains(s, p) == \E i \in 1..(Len(s) - Len(p) + 1) : SubSeq(s, i, i + Len(p) - 1) = p

\* A validation that looks for the keyword anywhere in the text.
ValidateSqlContains(sql) ==
    IF Contains(Lower(sql), KwSelect) \/ Contains(Lower(sql), KwWith)
    THEN <<TRUE, MsgSqlOk, Some(sql)>>
    ELSE IF sql = RefusalSentinel
    THEN <<FALSE, MsgRefusal, None>>
    ELSE <<FALSE, MsgNotQuery, None>>

\* if sql.lower().startswith(("select", "with")): ... elif sql == "无法生成有效的SQL查询": ...
ValidateSql(sql) ==
    IF StartsWith(Lower(sql), KwSelect) \/ StartsWith(Lower(sql), KwWith)
    THEN <<TRUE, MsgSqlOk, Some(sql)>>
    ELSE IF sql = RefusalSentinel
    THEN <<FALSE, MsgRefusal, None>>
    ELSE <<FALSE, MsgNotQuery, None>>

\* A handler that returns the bare text of the exception, as execute_sql does.
SynthesizeExceptBare(e) ==
    [out |-> Return(<<FALSE, e, None>>), log |-> << MsgOpenAIFailed \o e >>]

\* except Exception as e: self.logger.error(...); return False, f"调用OpenAI失败: {str(e)}", None
SynthesizeExcept(e) ==
    [out |-> Return(<<FALSE, MsgOpenAIFailed \o e, None>>),
     log |-> << MsgOpenAIFailed \o e >>]

\* The try block of natural_language_to_sql, given the stripped content.
SynthesizeBody(content) ==
    IF content.kind = "raise" THEN content ELSE Return(ValidateSql(content.value))

SynthesizeDone(done, query, schema, reply) ==
    [out |-> done.out, log |-> done.log,
     trace |-> << [ev |-> "llm", stage |-> "synthesize", query |-> query,
                   schema |-> schema, reply |-> reply] >>]

\* Steps 3 to 5: the prompt (its variable parts: schema_info and query), the
\* completion request and the validation of the answer.
Synthesize(query, schema, reply) ==
    SynthesizeDone(Caught(SynthesizeBody(ContentStrip(reply)), SynthesizeExcept),
                   query, schema, reply)

\* A stage's result ends the call: if not success: return False, message, None.
\* The calls of analyze_query and get_schema_info are outside the try block: an
\* exception of theirs would leave the method.
StageStops(out) == out.kind = "raise" \/ ~out.value[1]

StageOut(out) ==
    IF out.kind = "raise" THEN out ELSE Return(<<FALSE, out.value[2], None>>)

\* A call that asks the table-identification question again before it gives up.
NlStoppedAtAnalysisRetried(a, d, n, open) ==
    [out |-> StageOut(a.out), log |-> a.log \o a.log, trace |-> a.trace \o a.trace,
     db |-> d, nextConn |-> n, openConns |-> open]

\* natural_language_to_sql(query) when analyze_query (a) ends the call
NlStoppedAtAnalysis(a, d, n, open) ==
    [out |-> StageOut(a.out), log |-> a.log, trace |-> a.trace,
     db |-> d, nextConn |-> n, openConns |-> open]

\* ... when get_schema_info (s) ends the call
NlStoppedAtSchema(a, s) ==
    [out |-> StageOut(s.out), log |-> a.log \o s.log, trace |-> a.trace \o s.trace,
     db |-> s.db, nextConn |-> s.nextConn, openConns |-> s.openConns]

\* ... when the call reaches the completion request (g)
NlSynthesized(a, s, g) ==
    [out |-> g.out, log |-> a.log \o s.log \o g.log,
     trace |-> a.trace \o s.trace \o g.trace,
     db |-> s.db, nextConn |-> s.nextConn, openConns |-> s.openConns]

(***************************************************************************)
(* The inputs of the model: what callers pass and what the language model  *)
(* answers.                                                                *)
(***************************************************************************)
NameNOPE ==
    << "N", "O", "P", "E" >>

NameQuote ==
    << "O", "'", "B" >>

NameInject ==
    << "X", "'", ")", " ", "O", "R", " ", "(", "'", "1", "'", "=", "'", "1" >>

TxtEmpT ==
    << "E", "M", "P", "\n", "T" >>

TxtEmpDeptPadded ==
    << " ", "e", "m", "p", " ", "\n", "\n", "\t", "d", "e", "p", "t", " ", "\r", "\n" >>

TxtBlankLines ==
    << "\n", " ", "\n" >>

TxtUnknownThenEmp ==
    << "U+672A", "U+77E5", "\n", "e", "m", "p" >>

TxtSelect1 ==
    << "S", "E", "L", "E", "C", "T", " ", "1", " ", "F", "R", "O", "M", " ", "D", "U", "A", "L" >>

TxtSelectLower ==
    << "s", "e", "l", "e", "c", "t", " ", "i", "d", " ", "f", "r", "o", "m", " ", "t" >>

TxtSelectMixed ==
    << "S", "e", "l", "e", "c", "t" >>

TxtWith ==
    << "W", "I", "T", "H", " ", "q", " ", "A", "S", " ", "(", "S", "E", "L", "E", "C", "T", " ", "1",
       " ", "F", "R", "O", "M", " ", "D", "U", "A", "L", ")", " ", "S", "E", "L", "E", "C", "T", " ",
       "*", " ", "F", "R", "O", "M", " ", "q" >>

TxtWithdraw ==
    << "w", "i", "t", "h", "d", "r", "a", "w" >>

TxtSelec ==
    << "s", "e", "l", "e", "c" >>

TxtDrop ==
    << "D", "R", "O", "P", " ", "T", "A", "B", "L", "E", " ", "f", "o", "o" >>

TxtDelete ==
    << "d", "e", "l", "e", "t", "e", " ", "f", "r", "o", "m", " ", "t" >>

TxtFenced ==
    << "U+0060", "U+0060", "U+0060", "s", "q", "l", "\n", "S", "E", "L", "E", "C", "T", " ", "1", " ", "F", "R", "O",
       "M", " ", "D", "U", "A", "L", "\n", "U+0060", "U+0060", "U+0060" >>

TxtSentinelDot ==
    << "U+65E0", "U+6CD5", "U+751F", "U+6210", "U+6709", "U+6548", "U+7684", "S", "Q", "L", "U+67E5",
       "U+8BE2", "U+3002" >>

Questions == { << "show every employee" >>, << "which departments are there" >> }

\* Answers to the table-identification request.
AnalyzeTexts ==
    { UnknownToken, << " " >> \o UnknownToken \o << "\n" >>, TxtUnknownThenEmp,
      <<>>, TxtBlankLines,
      NameEmpLower, TxtEmpT, TxtEmpDeptPadded, NameNOPE, NameQuote, NameInject }

AnalyzeReplies ==
    { TextReply(t) : t \in AnalyzeTexts } \cup { NullReply }
    \cup { ErrorReply(e) : e \in LlmErrors }

\* Answers to the SQL-generation request.
SqlBodies ==
    { TxtSelect1, TxtSelectLower, TxtSelectMixed, TxtWith, TxtWithdraw, TxtSelec,
      TxtDrop, TxtDelete, TxtFenced, RefusalSentinel, TxtSentinelDot, <<>> }

LeftPads  == { <<>>, << "\n", " " >> }
RightPads == { <<>>, << " ", "\n" >> }

PaddedBodies == { TxtSelectLower, TxtDrop, RefusalSentinel }

SqlTexts == SqlBodies \cup { l \o b \o r : l \in LeftPads, b \in PaddedBodies, r \in RightPads }

SqlReplies ==
    { TextReply(t) : t \in SqlTexts } \cup { NullReply }
    \cup { ErrorReply(e) : e \in LlmErrors }

\* Statements given to execute_sql.
SqlInputs == { SelectT, WithT, InsertT, DeleteT, TruncateT, BadSql, <<>> }

\* Arguments of get_schema_info.
SchemaRequests ==
    { None, Some(<<>>), Some(<< NameEMP >>), Some(<< NameEmpLower >>),
      Some(<< NameEmpLower, NameEMP >>), Some(<< NameDEPT, NameNOPE >>),
      Some(<< NameQuote >>), Some(<< NameInject >>) }

ExecuteFaults == {"none", "connect", "execute", "fetch"}

\* round((time.time() - start_time) * 1000, 2), in milliseconds
ElapsedMs == {3, 120}

AnyElapsed == CHOOSE ms \in ElapsedMs : TRUE

\* self.username, self.password, self.connect_string and the SSL context that
\* _setup_ssl builds (check_hostname = False, verify_mode = ssl.CERT_NONE).
Profiles ==
    { [username |-> "admin", password |-> "secret",
       connect_string |-> "(description=(retry_count=20)(retry_delay=3)...)",
       ssl_context |-> [check_hostname |-> FALSE, verify_mode |-> "CERT_NONE"]] }

\* Connection parameters that take the endpoint from the wrong attribute.
GetConnectionParamsDsnFromUser(self) ==
    [user |-> self.username, password |-> self.password, dsn |-> self.username,
     ssl_context |-> self.ssl_context]

\* get_connection_params(): a new dict read from the attributes of self
GetConnectionParams(self) ==
    [user |-> self.username, password |-> self.password, dsn |-> self.connect_string,
     ssl_context |-> self.ssl_context]

\* oracledb.connect(**self.get_connection_params()): every attempt to connect
\* among the calls of an operation is made with these parameters.
ConnectWith(calls, params) ==
    [i \in 1..Len(calls) |->
        IF calls[i].ev = "connect"
        THEN [ev |-> "connect", conn |-> calls[i].conn, params |-> params]
        ELSE IF calls[i].ev = "connect_failed"
        THEN [ev |-> "connect_failed", params |-> params]
        ELSE calls[i]]

(***************************************************************************)
(* The state machine: one action per public operation.                     *)
(***************************************************************************)
Init ==
    /\ profile \in Profiles
    /\ db \in [rows : {{1}}, tables : Catalogs]
    /\ nextConn = 0
    /\ openConns = {}
    /\ trace = <<>>
    /\ errlog = <<>>
    /\ result = [op |-> "init", arg |-> None, fault |-> "none", out |-> Return(None)]

Gateway(op, arg, fault, r) ==
    /\ db' = r.db
    /\ nextConn' = r.nextConn
    /\ openConns' = r.openConns
    /\ trace' = ConnectWith(r.trace, GetConnectionParams(profile))
    /\ errlog' = r.log
    /\ result' = [op |-> op, arg |-> arg, fault |-> fault, out |-> r.out]
    /\ UNCHANGED profile

DoTestConnection ==
    /\ nextConn < MaxConns
    /\ \E fault \in TestConnectionFaults, ms \in ElapsedMs :
          Gateway("test_connection", None, fault,
                  TestConnection(fault, ms, db, nextConn, openConns))

DoExecuteSql ==
    /\ nextConn < MaxConns
    /\ \E sql \in SqlInputs, fault \in ExecuteFaults, known \in BOOLEAN, ms \in ElapsedMs :
          Gateway("execute_sql", Some(sql), fault,
                  ExecuteSql(sql, fault, known, ms, db, nextConn, openConns))

DoGetVersion ==
    /\ nextConn < MaxConns
    /\ \E fault \in GetVersionFaults :
          Gateway("get_version", None, fault, GetVersion(fault, db, nextConn, openConns))

DoAnalyzeQuery ==
    \E query \in Questions, reply \in AnalyzeReplies :
        LET r == AnalyzeQuery(query, reply)
        IN  /\ trace' = r.trace
            /\ errlog' = r.log
            /\ result' = [op |-> "analyze_query", arg |-> Some(query),
                          fault |-> IF reply.kind = "text" THEN "none" ELSE "llm",
                          out |-> r.out]
            /\ UNCHANGED <<profile, db, nextConn, openConns>>

DoGetSchemaInfo ==
    /\ nextConn < MaxConns
    /\ \E tables \in SchemaRequests, fault \in ExecuteFaults :
          Gateway("get_schema_info", tables, fault,
                  GetSchemaInfo(tables, fault, TRUE, AnyElapsed, db, nextConn, openConns))

\* natural_language_to_sql(query): the inputs of a stage are drawn when the call
\* reaches the stage.  The elapsed time of the inner execute_sql is not kept.
DoNaturalLanguageToSql ==
    /\ nextConn < MaxConns
    /\ \E query \in Questions, reply1 \in AnalyzeReplies :
       \E a \in {AnalyzeQuery(query, reply1)} :
          IF StageStops(a.out)
          THEN Gateway("natural_language_to_sql", Some(query), "none",
                       NlStoppedAtAnalysis(a, db, nextConn, openConns))
          ELSE \E fault \in ExecuteFaults :
               \E s \in {GetSchemaInfo(a.out.value[3], fault, TRUE, AnyElapsed,
                                       db, nextConn, openConns)} :
                  IF StageStops(s.out)
                  THEN Gateway("natural_language_to_sql", Some(query), fault,
                               NlStoppedAtSchema(a, s))
                  ELSE \E reply2 \in SqlReplies :
                          Gateway("natural_language_to_sql", Some(query), fault,
                                  NlSynthesized(a, s,
                                      Synthesize(query, s.out.value[3][1], reply2)))

Next ==
    \/ DoTestConnection
    \/ DoExecuteSql
    \/ DoGetVersion
    \/ DoAnalyzeQuery
    \/ DoGetSchemaInfo
    \/ DoNaturalLanguageToSql

Spec == Init /\ [][Next]_vars

(***************************************************************************)
(* What the properties below read from a state, stated without the         *)
(* operators that model the code.                                          *)
(***************************************************************************)
Returned == result.out.kind = "return"

Ret == result.out.value

LlmEvents(stage) == SelectSeq(trace, LAMBDA e : e.ev = "llm" /\ e.stage = stage)

Asked(stage) == LlmEvents(stage) # <<>>

ReplyTo(stage) == LlmEvents(stage)[1].reply

ExecuteEvents == SelectSeq(trace, LAMBDA e : e.ev = "execute")

CursorEvents == SelectSeq(trace, LAMBDA e : e.ev = "cursor")

ConnectEvents == SelectSeq(trace, LAMBDA e : e.ev = "connect")

MinOf(S) == CHOOSE x \in S : \A y \in S : x <= y

MaxOf(S) == CHOOSE x \in S : \A y \in S : x >= y

NonBlank(s) == {i \in 1..Len(s) : s[i] \notin Whitespace}

\* s without its leading and trailing whitespace
Trimmed(s) ==
    IF NonBlank(s) = {} THEN <<>> ELSE SubSeq(s, MinOf(NonBlank(s)), MaxOf(NonBlank(s)))

\* s begins with the (lower-case) word w, in any mix of cases
BeginsWithWord(s, w) ==
    /\ Len(s) >= Len(w)
    /\ \A i \in 1..Len(w) : s[i] = w[i] \/ s[i] = UpperOf[w[i]]

IsQueryText(t) == BeginsWithWord(t, KwSelect) \/ BeginsWithWord(t, KwWith)

UpperCased(s) == [i \in 1..Len(s) |-> IF s[i] \in DOMAIN UpperOf THEN UpperOf[s[i]] ELSE s[i]]

Letters == DOMAIN UpperOf \cup DOMAIN LowerOf

\* The leading token of a statement: its first run of letters, in upper case.
LeadingToken(stmt) ==
    LET t == Trimmed(stmt)
        stops == {i \in 1..Len(t) : t[i] \notin Letters}
    IN  UpperCased(SubSeq(t, 1, IF stops = {} THEN Len(t) ELSE MinOf(stops) - 1))

TokenSelect == << "S", "E", "L", "E", "C", "T" >>

TokenWith == << "W", "I", "T", "H" >>

\* The lines of a text: what lies between two line breaks.
Breaks(t) == {0, Len(t) + 1} \cup {i \in 1..Len(t) : t[i] = "\n"}

LinesOf(t) ==
    LET starts == SortedSeq(Breaks(t) \ {Len(t) + 1})
    IN  [k \in 1..Len(starts) |->
            SubSeq(t, starts[k] + 1, MinOf({b \in Breaks(t) : b > starts[k]}) - 1)]

\* The trimmed, upper-cased name of every non-empty line.
ExpectedNames(t) ==
    SelectSeq([k \in 1..Len(LinesOf(t)) |-> UpperCased(Trimmed(LinesOf(t)[k]))],
              LAMBDA name : name # <<>>)

\* The exceptions a completion request can end with.
LlmExceptions == LlmErrors \cup {NoneStripError}

(***************************************************************************)
(* C1.  natural_language_to_sql returns a success triple carrying SQL only *)
(* if the completion text, trimmed and case-folded, starts with "select"   *)
(* or "with", and then the SQL is the trimmed text; every other completion *)
(* text yields a non-success triple with None in the data slot.            *)
(***************************************************************************)
C1_SuccessOnlyForSelectOrWith ==
    (result.op = "natural_language_to_sql" /\ Returned) =>
        /\ Ret[1] =>
              /\ Asked("synthesize")
              /\ ReplyTo("synthesize").kind = "text"
              /\ IsQueryText(Trimmed(ReplyTo("synthesize").text))
              /\ Ret[3] = Some(Trimmed(ReplyTo("synthesize").text))
        /\ (/\ Asked("synthesize")
            /\ ReplyTo("synthesize").kind = "text"
            /\ ~IsQueryText(Trimmed(ReplyTo("synthesize").text)))
              => (~Ret[1] /\ Ret[3] = None)
        /\ ~Ret[1] => Ret[3] = None

\* The completion "DROP TABLE foo", with whitespace around it, is turned down.
C1_DropTurnedDown ==
    /\ result.op = "natural_language_to_sql"
    /\ Asked("synthesize")
    /\ ReplyTo("synthesize") = TextReply(<< "\n", " " >> \o TxtDrop \o << " ", "\n" >>)
    /\ Returned
    /\ Ret = <<FALSE, MsgNotQuery, None>>

(***************************************************************************)
(* C2 as stated.  Every statement handed to the database for execution has *)
(* SELECT or WITH as its leading token.                                    *)
(***************************************************************************)
C2_OnlyQueriesExecuted ==
    \A i \in 1..Len(ExecuteEvents) :
        LeadingToken(ExecuteEvents[i].sql) \in {TokenSelect, TokenWith}

(***************************************************************************)
(* C2 amended.  The statement that get_schema_info and                     *)
(* natural_language_to_sql hand to execute_sql has SELECT as its leading   *)
(* token, whatever the table names are; execute_sql called directly hands  *)
(* its argument to the database as it is.                                  *)
(***************************************************************************)
C2_PipelineExecutesOnlySelect ==
    /\ result.op \in {"get_schema_info", "natural_language_to_sql"} =>
          \A i \in 1..Len(ExecuteEvents) : LeadingToken(ExecuteEvents[i].sql) = TokenSelect
    /\ result.op = "execute_sql" =>
          \A i \in 1..Len(ExecuteEvents) : ExecuteEvents[i].sql = result.arg[1]

\* The pipeline has run the catalog statement for a table name holding quotes.
C2_CatalogStatementRun ==
    /\ result.op = "natural_language_to_sql"
    /\ ReplyTo("analyze") = TextReply(NameInject)
    /\ Len(ExecuteEvents) = 1
    /\ Contains(ExecuteEvents[1].sql, NameInject)

(***************************************************************************)
(* C3.  The synthesizer's three negative outcomes differ: the refusal      *)
(* sentinel gives the refusal message, any other text that is no           *)
(* SELECT/WITH statement gives the non-query message, and an exception of  *)
(* the completion request gives the error message that carries the         *)
(* exception's text; no outcome of one case is an outcome of another.      *)
(***************************************************************************)
RefusalOutcome == <<FALSE, MsgRefusal, None>>

NotQueryOutcome == <<FALSE, MsgNotQuery, None>>

ErrorOutcomes == { <<FALSE, MsgOpenAIFailed \o e, None>> : e \in LlmExceptions }

C3_NegativeOutcomesDiffer ==
    (result.op = "natural_language_to_sql" /\ Returned /\ Asked("synthesize")) =>
        LET reply == ReplyTo("synthesize")
            text == Trimmed(reply.text)
        IN  /\ (reply.kind = "text" /\ text = RefusalSentinel) =>
                  (Ret = RefusalOutcome /\ Ret # NotQueryOutcome /\ Ret \notin ErrorOutcomes)
            /\ (reply.kind = "text" /\ text # RefusalSentinel /\ ~IsQueryText(text)) =>
                  (Ret = NotQueryOutcome /\ Ret # RefusalOutcome /\ Ret \notin ErrorOutcomes)
            /\ reply.kind = "raise" =>
                  (/\ Ret = <<FALSE, MsgOpenAIFailed \o reply.text, None>>
                   /\ Ret \notin {RefusalOutcome, NotQueryOutcome})
            /\ reply.kind = "null" =>
                  (Ret \in ErrorOutcomes /\ Ret \notin {RefusalOutcome, NotQueryOutcome})

\* The request failed with an exception whose text is the refusal message.
C3_ErrorWithRefusalText ==
    /\ result.op = "natural_language_to_sql"
    /\ Asked("synthesize")
    /\ ReplyTo("synthesize") = ErrorReply(MsgRefusal)
    /\ Returned
    /\ Ret[2] = MsgOpenAIFailed \o MsgRefusal

(***************************************************************************)
(* C4.  When the model answers the table-identification request with the   *)
(* "unknown" token, or with text that holds no table name, analyze_query   *)
(* reports "no tables identified": nothing is logged as an error, and the  *)
(* result differs from that of every failed request.  Otherwise it returns *)
(* the trimmed, upper-cased name of every non-empty line.                  *)
(***************************************************************************)
NoTablesOutcome == <<FALSE, MsgNoTables, None>>

AnalyzeErrorOutcomes == { <<FALSE, MsgAnalyzeFailed \o e, None>> : e \in LlmExceptions }

C4_NoTablesIsNotAnError ==
    (result.op = "analyze_query" /\ Returned) =>
        LET reply == ReplyTo("analyze")
            text == Trimmed(reply.text)
        IN  IF reply.kind # "text"
            THEN /\ Ret \in AnalyzeErrorOutcomes
                 /\ Ret # NoTablesOutcome
                 /\ errlog # <<>>
            ELSE IF text = UnknownToken \/ ExpectedNames(text) = <<>>
            THEN /\ Ret = NoTablesOutcome
                 /\ Ret \notin AnalyzeErrorOutcomes
                 /\ errlog = <<>>
            ELSE /\ Ret[1]
                 /\ Ret[3] = Some(ExpectedNames(text))
                 /\ errlog = <<>>

\* The model answered "unknown" with whitespace around it.
C4_UnknownAnswered ==
    /\ result.op = "analyze_query"
    /\ ReplyTo("analyze") = TextReply(<< " " >> \o UnknownToken \o << "\n" >>)
    /\ Returned
    /\ Ret = NoTablesOutcome

(***************************************************************************)
(* C5.  No public operation lets a fault escape: every operation returns,  *)
(* and when the driver or the language-model service failed at some step   *)
(* it returns (False, message, None), get_version the fallback string.     *)
(***************************************************************************)
\* The step at which the driver was to fail was reached.
DriverFailed ==
    \/ result.fault \in {"connect", "execute", "norow", "execute2", "fetch2", "norow2"}
    \/ /\ result.fault = "fetch"
       /\ \/ result.op \in {"test_connection", "get_version"}
          \/ \E i \in 1..Len(CursorEvents) : CursorEvents[i].description # None

LlmFailed ==
    \E i \in 1..Len(trace) : trace[i].ev = "llm" /\ trace[i].reply.kind # "text"

C5_NoFaultEscapes ==
    /\ Returned
    /\ (DriverFailed \/ LlmFailed) =>
          IF result.op = "get_version"
          THEN Ret = VersionFallback
          ELSE Ret[1] = FALSE /\ Ret[2] # <<>> /\ Ret[3] = None

\* natural_language_to_sql, the database failing while it runs the catalog statement.
C5_FaultInsidePipeline ==
    /\ result.op = "natural_language_to_sql"
    /\ result.fault = "execute"
    /\ Len(ExecuteEvents) = 1
    /\ Returned
    /\ Ret = <<FALSE, MsgSchemaFailed \o NetworkError, None>>

(***************************************************************************)
(* C6.  Every gateway operation opens a connection of its own and has      *)
(* closed it when it returns, however it ends: no connection is open       *)
(* between operations, the connection an operation uses is one no earlier  *)
(* operation had, and every statement runs between the opening and the     *)
(* closing of that connection.                                             *)
(***************************************************************************)
ClosedLater(i) ==
    \E j \in (i + 1)..Len(trace) : trace[j].ev = "close" /\ trace[j].conn = trace[i].conn

OpenedBefore(i) ==
    \E j \in 1..(i - 1) : trace[j].ev = "connect" /\ trace[j].conn = trace[i].conn

C6_ConnectionsClosed ==
    /\ openConns = {}
    /\ Len(ConnectEvents) <= 1
    /\ \A i \in 1..Len(trace) :
          /\ trace[i].ev = "connect" => (trace[i].conn = nextConn /\ ClosedLater(i))
          /\ trace[i].ev = "execute" => (OpenedBefore(i) /\ ClosedLater(i))

\* A second operation, on the second connection, failed while fetching.
C6_ClosedAfterFailedFetch ==
    /\ result.op = "execute_sql"
    /\ result.arg = Some(SelectT)
    /\ result.fault = "fetch"
    /\ Returned
    /\ ~Ret[1]
    /\ Len(ConnectEvents) = 1
    /\ ConnectEvents[1].conn = 2

(***************************************************************************)
(* C7.  A successful execute_sql returns one of two shapes.  For a         *)
(* statement with a result set: the column names, all the rows, and None   *)
(* as affected_rows.  For a statement without one: no columns, no rows and *)
(* the row count the engine reported, -1 ("unknown") staying -1.           *)
(***************************************************************************)
C7_ResultShapes ==
    (result.op = "execute_sql" /\ Returned /\ Ret[1]) =>
        /\ Len(CursorEvents) = 1
        /\ LET cur == CursorEvents[1]
               data == Ret[3][1]
           IN  IF cur.description # None
               THEN /\ Len(data.columns) = Len(cur.description[1])
                    /\ \A i \in 1..Len(data.columns) :
                          data.columns[i] = cur.description[1][i][1]
                    /\ data.columns # <<>>
                    /\ data.results = cur.rows
                    /\ data.affected_rows = None
               ELSE /\ data.columns = <<>>
                    /\ data.results = <<>>
                    /\ data.affected_rows = Some(cur.rowcount)
                    /\ (cur.rowcount = -1 => data.affected_rows # Some(0))

\* A DELETE whose row count the engine did not report.
C7_UnknownRowCount ==
    /\ result.op = "execute_sql"
    /\ result.arg = Some(DeleteT)
    /\ Returned
    /\ Ret[1]
    /\ Ret[3][1].affected_rows = Some(-1)
    /\ Ret[3][1].columns = <<>>

(***************************************************************************)
(* C8 as stated.  A successful get_schema_info for a non-empty list of     *)
(* table names returns a mapping whose keys are exactly the                *)
(* case-normalized names of the requested tables that exist in the schema, *)
(* no two keys differing only in case, each table's columns in the order   *)
(* of the catalog.                                                         *)
(***************************************************************************)
Elements(seq) == {seq[i] : i \in 1..Len(seq)}

C8_KeysAreRequestedTables ==
    (/\ result.op = "get_schema_info"
     /\ Returned
     /\ Ret[1]
     /\ result.arg # None
     /\ result.arg[1] # <<>>) =>
        LET info == Ret[3][1]
            requested == Elements(result.arg[1])
        IN  /\ DOMAIN info = {UpperCased(t) : t \in requested \cap Elements(db.tables)}
            /\ \A k1, k2 \in DOMAIN info : UpperCased(k1) = UpperCased(k2) => k1 = k2
            /\ \A k \in DOMAIN info :
                  [i \in 1..Len(info[k].columns) |-> info[k].columns[i].name]
                  = [i \in 1..Len(CatalogOf(k).columns) |-> CatalogOf(k).columns[i].name]

(***************************************************************************)
(* C9 as stated.  The catalog statement that get_schema_info executes      *)
(* restricts the rows to exactly the given table names, whatever           *)
(* characters the names hold: the database reads its condition as          *)
(* t.table_name IN (the names) and nothing else.                           *)
(***************************************************************************)
RequestedTables ==
    IF result.op = "get_schema_info"
    THEN (IF result.arg = None THEN <<>> ELSE result.arg[1])
    ELSE ExpectedNames(Trimmed(ReplyTo("analyze").text))

C9_FilterIsExactlyTheNames ==
    (/\ result.op \in {"get_schema_info", "natural_language_to_sql"}
     /\ ExecuteEvents # <<>>
     /\ RequestedTables # <<>>) =>
        ParseFilter(DropFirst(ExecuteEvents[1].sql, Len(SchemaSqlHead)))
        = [ok |-> TRUE, kind |-> "in", names |-> RequestedTables, always |-> FALSE]

(***************************************************************************)
(* C10 as stated.  After execute_sql has executed an INSERT or a DELETE    *)
(* and returned success, the change is in the database for every later     *)
(* operation.                                                              *)
(***************************************************************************)
C10_DmlIsCommitted ==
    (result.op = "execute_sql" /\ Returned /\ Ret[1]) =>
        /\ result.arg = Some(InsertT) => 2 \in db.rows
        /\ result.arg = Some(DeleteT) => db.rows = {}

(***************************************************************************)
(* C11.  No operation mutates the connection profile: whatever operation   *)
(* runs, and whether it succeeds or fails, the user, password, endpoint    *)
(* and SSL policy stay what they were at construction, and every attempt   *)
(* to connect is made with exactly these values.  Hence a test_connection  *)
(* against an unreachable endpoint that follows another one returns the    *)
(* same failure.                                                           *)
(***************************************************************************)
ConnectAttempts(calls) ==
    SelectSeq(calls, LAMBDA e : e.ev \in {"connect", "connect_failed"})

UsesProfile(params, p) ==
    /\ params.user = p.username
    /\ params.password = p.password
    /\ params.dsn = p.connect_string
    /\ params.ssl_context = p.ssl_context

Unreachable == result.op = "test_connection" /\ result.fault = "connect"

C11_ProfileNeverMutated ==
    [][/\ profile' = profile
       /\ profile' \in Profiles
       /\ \A i \in 1..Len(ConnectAttempts(trace')) :
             UsesProfile(ConnectAttempts(trace')[i].params, profile)
       /\ (Unreachable /\ Unreachable') =>
             (result'.out = result.out /\ errlog' = errlog)]_vars

\* test_connection fails to connect after earlier operations have run and connected.
C11_UnreachableAfterOtherCalls ==
    /\ Unreachable
    /\ nextConn >= 1
    /\ Returned
    /\ Ret[1] = FALSE
    /\ Ret[3] = None
    /\ Len(ConnectAttempts(trace)) = 1
    /\ ConnectAttempts(trace)[1].ev = "connect_failed"
    /\ UsesProfile(ConnectAttempts(trace)[1].params, profile)
    /\ profile \in Profiles

(***************************************************************************)
(* C12.  natural_language_to_sql runs table identification, schema lookup  *)
(* and SQL synthesis in this order, each at most once: the catalog         *)
(* statement is issued only after table identification succeeded, the      *)
(* synthesis request is sent only after the schema lookup succeeded, and a *)
(* stage that fails ends the call with its own message.  One call makes    *)
(* at most two language-model requests and at most one database query.     *)
(***************************************************************************)
At(stage) == {i \in 1..Len(trace) : trace[i].ev = "llm" /\ trace[i].stage = stage}

DbCallsAt == {i \in 1..Len(trace) : trace[i].ev # "llm"}

\* The answer to the table-identification request names at least one table.
TablesIdentified ==
    /\ ReplyTo("analyze").kind = "text"
    /\ Trimmed(ReplyTo("analyze").text) # UnknownToken
    /\ ExpectedNames(Trimmed(ReplyTo("analyze").text)) # <<>>

\* The catalog statement was executed and its rows were fetched.
SchemaFetched == result.fault = "none" /\ CursorEvents # <<>>

SynthesisOutcomes == {RefusalOutcome, NotQueryOutcome} \cup ErrorOutcomes

C12_StagesInOrder ==
    result.op = "natural_language_to_sql" =>
        /\ At("analyze") = {1}
        /\ Cardinality(At("synthesize")) <= 1
        /\ Len(ExecuteEvents) <= 1
        /\ Len(ConnectAttempts(trace)) <= 1
        /\ \A i \in DbCallsAt : i > 1 /\ \A j \in At("synthesize") : i < j
        /\ DbCallsAt # {} <=> TablesIdentified
        /\ At("synthesize") # {} <=> (TablesIdentified /\ SchemaFetched)
        /\ Returned
        /\ ~TablesIdentified => Ret \in {NoTablesOutcome} \cup AnalyzeErrorOutcomes
        /\ (TablesIdentified /\ ~SchemaFetched) =>
              /\ Ret[1] = FALSE
              /\ Len(Ret[2]) > Len(MsgSchemaFailed)
              /\ SubSeq(Ret[2], 1, Len(MsgSchemaFailed)) = MsgSchemaFailed
              /\ Ret[3] = None
        /\ (TablesIdentified /\ SchemaFetched) =>
              (Ret \in SynthesisOutcomes \/ (Ret[1] /\ Ret[3] # None))

\* All three stages ran, one after the other, and the last one refused.
C12_ThreeStagesThenRefusal ==
    /\ result.op = "natural_language_to_sql"
    /\ At("analyze") = {1}
    /\ Len(ExecuteEvents) = 1
    /\ At("synthesize") = {Len(trace)}
    /\ Len(trace) > 2
    /\ Ret = RefusalOutcome

=============================================================================
